---- MODULE Spec2Model ----
(***************************************************************************)
(* Model of the news-driven trading core of Crypto-news-trade:             *)
(*   - simple_storage.SimpleDataStore      (positions / orders JSON files) *)
(*   - modules.trading_strategy            (signals, risk gate, buy/sell)  *)
(*   - modules.stop_loss_monitor           (per-position monitors and the  *)
(*                                          supervising StopLossManager)   *)
(*   - modules.binance_client.BinanceAPIWrapper (the Venue interface)      *)
(*                                                                         *)
(* Threads: the news-handler threads (one per collector), one thread per   *)
(* PositionMonitor, the management (reconciliation) threads, and the main  *)
(* thread that calls start(), stop() and update_stop_loss().  Every step   *)
(* of a thread makes at most one access to state shared with other         *)
(* threads; in particular each Store operation is a load of the whole file *)
(* followed later by a save of the modified copy, as in simple_storage.    *)
(*                                                                         *)
(* Numbers: prices are whole USDT, quantities are counted in 10^-6 units   *)
(* of the base asset, P&L and daily_loss are in 10^-6 USDT.  Timestamps    *)
(* (created_at, updated_at, closed_at) and log output are left out.        *)
(***************************************************************************)
EXTENDS Integers, Sequences, FiniteSets, TLC

\* ------------------------------------------------------------------ bounds
MaxEvents == 2      \* news events delivered to the handlers
MaxUpdates == 1     \* update_stop_loss calls
MaxStarts == 2      \* StopLossManager.start() calls
MaxDays == 1        \* UTC date rollovers
MaxTorn == 1        \* reads of a Store file that fall into a write of it

\* ------------------------------------------------------- program constants
min_confidence == 60          \* 0.6, in percent
sentiment_threshold == 30     \* 0.3, in percent
stop_loss_percentage == 10    \* 0.1, in percent
trade_amount_usdt == 10
max_open_positions == 5
max_daily_trades == 20
daily_loss_limit == 100
QtyScale == 1000000           \* quantities are kept to 6 decimal places
summary_limit == 50           \* get_trading_summary: limit of its two listings
recent_orders_shown == 10     \* get_trading_summary: orders[:10]

Handlers == {"mock", "rest"}          \* one handler thread per news collector
supported_coins == {"BTC", "ETH"}
Coins == {"BTC", "ETH", "DOGE", "btc"}  \* coin names as events mention them
Symbols == {"BTCUSDT", "ETHUSDT"}

\* The Venue's quotes: around the mock's base price, and one below the
\* stop-loss threshold of a position entered at the base price.
Quotes(sym) == IF sym = "BTCUSDT" THEN {40000, 45000} ELSE {2500, 2800}
Balances == {5, 10, 1000}              \* free USDT reported by the Venue
StopLevels == {36000, 42000}           \* thresholds passed to update_stop_loss

PosIds == 1..(MaxEvents + 1)

VARIABLES
    positions,   \* Store: positions.json, a list of position records
    orders,      \* Store: trading_orders.json, a list of order records
    risk,        \* RiskManager: daily_trades, daily_loss, last_reset
    today,       \* the current UTC date
    handler,     \* the news-handler threads (process_news_for_trading)
    monitors,    \* the PositionMonitor objects and their threads
    manager,     \* StopLossManager: running, registry (self.monitors)
    mgmt,        \* the management threads (_management_loop)
    main,        \* the main thread: start(), stop(), update_stop_loss()
    env,         \* input budgets used so far, and the last event delivered
    hist         \* history: Venue orders executed since the counters' reset
                 \* (executed) and per position (sells), losses realized since
                 \* the reset, the Venue's last answers to a monitor (low, sold)

vars == <<positions, orders, risk, today, handler, monitors, manager, mgmt, main, env, hist>>

\* ------------------------------------------------------------ arithmetic
Abs(x) == IF x < 0 THEN -x ELSE x

\* Python's round(a / b, 0) for positive a, b: to nearest, ties to even.
RoundDiv(a, b) ==
    LET q == a \div b
        r == a % b
    IN  IF 2 * r < b THEN q
        ELSE IF 2 * r > b THEN q + 1
        ELSE IF q % 2 = 0 THEN q ELSE q + 1

MaxOf(S) == CHOOSE x \in S : \A y \in S : y <= x

\* ------------------------------------------------------------- the Store
generate_id(data) ==
    IF data = <<>> THEN 1 ELSE MaxOf({data[i].id : i \in DOMAIN data}) + 1

\* dict.update on the first record with the id, then break
UpdateFields(rec, updates) ==
    [f \in DOMAIN rec |-> IF f \in DOMAIN updates THEN updates[f] ELSE rec[f]]

FirstIndex(data, id) ==
    IF \E i \in DOMAIN data : data[i].id = id
    THEN CHOOSE i \in DOMAIN data :
            data[i].id = id /\ \A j \in DOMAIN data : data[j].id = id => i <= j
    ELSE 0

UpdateRecord(data, id, updates) ==
    LET k == FirstIndex(data, id)
    IN  IF k = 0 THEN data
        ELSE [data EXCEPT ![k] = UpdateFields(data[k], updates)]

get_open_positions(ps) == SelectSeq(ps, LAMBDA p : p.status = "open")

\* _save_json opens the file with mode 'w', which empties it, and the data
\* reach the file when it is closed.  _load_json in another thread meanwhile
\* finds an empty or partial file: json.load raises JSONDecodeError and
\* _load_json returns [].  A thread is writing when it is at the _save_json
\* call of its Store operation.
WritingPositions ==
    \/ \E h \in Handlers : handler[h].pc \in {"buy_pos_save", "sell_pos_save"}
    \/ \E m \in DOMAIN monitors : monitors[m].pc \in {"upd_save", "sl_pos_save"}
    \/ main.pc = "usl_save"
WritingOrders ==
    \/ \E h \in Handlers :
          handler[h].pc \in {"buy_order_save", "buy_link_save", "sell_order_save"}
    \/ \E m \in DOMAIN monitors : monitors[m].pc = "sl_order_save"

\* what _load_json can return for a file with the content `data`
load_json(data, writing) ==
    IF writing /\ env.torn < MaxTorn THEN {data, <<>>} ELSE {data}
LoadPositions == load_json(positions, WritingPositions)
LoadOrders == load_json(orders, WritingOrders)

\* env after a read of `file` that returned `data`
AfterLoad(data, file) == IF data # file THEN [env EXCEPT !.torn = @ + 1] ELSE env

FindPosition(ps, id) ==
    LET k == FirstIndex(ps, id) IN IF k = 0 THEN <<>> ELSE <<ps[k]>>

NewPosition(id, sym, qty, price, order_id) ==
    [id |-> id, symbol |-> sym, quantity |-> qty, entry_price |-> price,
     current_price |-> price, unrealized_pnl |-> 0,
     stop_loss_price |-> (price * (100 - stop_loss_percentage)) \div 100,
     status |-> "open", is_monitoring |-> TRUE, realized_pnl |-> 0,
     entry_order_id |-> order_id, exit_order_id |-> 0]

NewOrder(id, sym, side, qty, price, exec, pid) ==
    [id |-> id, symbol |-> sym, side |-> side, quantity |-> qty, price |-> price,
     executed_price |-> exec, position_id |-> pid]

\* ------------------------------------------------------------- the Venue
calculate_buy_quantity(sym, usdt_amount, price) ==
    IF sym = "BTCUSDT" THEN RoundDiv(usdt_amount * QtyScale, price)
    ELSE IF sym = "ETHUSDT" THEN RoundDiv(usdt_amount * (QtyScale \div 10), price) * 10
    ELSE RoundDiv(usdt_amount * (QtyScale \div 100), price) * 100

\* --------------------------------------------------------- SignalGenerator
\* str.upper() on the coin names of the model
upper(coin) == IF coin = "btc" THEN "BTC" ELSE coin
EndsWithUSDT(name) == name \in Symbols

\* a faulty variant: every mentioned coin is taken as supported
AnyCoinSupported(coin) == TRUE

is_coin_supported(coin) == upper(coin) \in {upper(c) : c \in supported_coins}

get_trade_symbol(coin) ==
    IF EndsWithUSDT(upper(coin)) THEN upper(coin) ELSE upper(coin) \o "USDT"
has_open_position(ps, sym) ==
    \E i \in DOMAIN ps : ps[i].status = "open" /\ ps[i].symbol = sym

\* a faulty variant: the sentiment label alone decides, the score is not
\* compared with the threshold
SignalActionAnyScore(ev, ps, sym) ==
    IF ev.sentiment = "positive" THEN "buy"
    ELSE IF ev.sentiment = "negative" /\ has_open_position(ps, sym) THEN "sell"
    ELSE "hold"

SignalAction(ev, ps, sym) ==
    IF ev.sentiment = "positive" /\ ev.score > sentiment_threshold THEN "buy"
    ELSE IF ev.sentiment = "negative" /\ ev.score < -sentiment_threshold
            /\ has_open_position(ps, sym) THEN "sell"
    ELSE "hold"

RECURSIVE AnalyzeCoins(_, _, _)
AnalyzeCoins(coins, ev, ps) ==
    IF coins = <<>> THEN <<>>
    ELSE LET coin == Head(coins)
             rest == AnalyzeCoins(Tail(coins), ev, ps)
         IN  IF ~is_coin_supported(coin) THEN rest
             ELSE LET sym == get_trade_symbol(coin)
                      action == SignalAction(ev, ps, sym)
                  IN  IF action = "hold" THEN rest
                      ELSE <<[symbol |-> sym, action |-> action,
                              confidence |-> ev.confidence,
                              sentiment |-> ev.sentiment]>> \o rest

analyze_news_for_trading(ev, ps) ==
    IF ev.confidence < min_confidence THEN <<>> ELSE AnalyzeCoins(ev.coins, ev, ps)

\* The scored events the collectors deliver while trading runs.
TradingEvents ==
    { [sentiment |-> "positive", score |-> 80, confidence |-> 90, coins |-> <<"BTC">>],
      [sentiment |-> "negative", score |-> -80, confidence |-> 90, coins |-> <<"BTC">>] }

\* Scored events of every kind: each sentiment, scores and confidences on both
\* sides of the thresholds, coin lists with unsupported, repeated and
\* lower-case names.
Sentiments == {"positive", "negative", "neutral"}
Scores == {-31, -30, 30, 31}
Confidences == {59, 60}
CoinLists ==
    { <<>>, <<"BTC">>, <<"ETH", "BTC">>, <<"btc", "DOGE", "ETH">>, <<"BTC", "BTC">> }
NewsEvents ==
    [sentiment : Sentiments, score : Scores, confidence : Confidences, coins : CoinLists]

\* Good news that names two coins, and good news that names one of them.
PairEvents ==
    { [sentiment |-> "positive", score |-> 80, confidence |-> 90, coins |-> <<"ETH", "BTC">>],
      [sentiment |-> "positive", score |-> 80, confidence |-> 90, coins |-> <<"BTC">>] }

\* Bad news about one coin.
SellEvents ==
    { [sentiment |-> "negative", score |-> -80, confidence |-> 90, coins |-> <<"BTC">>],
      [sentiment |-> "negative", score |-> -80, confidence |-> 90, coins |-> <<"ETH">>] }

\* what env.news holds before the first event
NoNews == [sentiment |-> "neutral", score |-> 0, confidence |-> 0, coins |-> <<>>]

\* ---------------------------------------------------------------- RiskGate
reset_daily_counters(r, date) ==
    IF date > r.last_reset
    THEN [daily_trades |-> 0, daily_loss |-> 0, last_reset |-> date]
    ELSE r

\* The Venue's answers to get_balance("USDT"): a balance, or BinanceAPIError.
BalanceAnswers ==
    [asked : {TRUE}, ok : {TRUE}, free : Balances]
        \cup {[asked |-> TRUE, ok |-> FALSE, free |-> 0]}
NoBalance == [asked |-> FALSE, ok |-> FALSE, free |-> 0]    \* never asked yet

\* a faulty variant: the daily trade count is not tested
limits_reached_but_trades(r, ps) ==
    \/ r.daily_loss >= daily_loss_limit * QtyScale
    \/ Len(get_open_positions(ps)) >= max_open_positions

\* check_trade_limits before it reads the Store: the two daily limits
counters_reached(r) ==
    \/ r.daily_trades >= max_daily_trades
    \/ r.daily_loss >= daily_loss_limit * QtyScale

\* check_trade_limits up to the balance request: the three limits it tests
\* first; it returns False at the first one reached, without asking the Venue
limits_reached(r, ps) ==
    \/ r.daily_trades >= max_daily_trades
    \/ r.daily_loss >= daily_loss_limit * QtyScale
    \/ Len(get_open_positions(ps)) >= max_open_positions

\* a faulty variant: a balance equal to the trade amount is refused
check_trade_limits_strict(r, ps, balance, trade_amount) ==
    /\ ~limits_reached(r, ps)
    /\ ~(balance <= trade_amount)

\* check_trade_limits after the lazy reset, with the balance the Venue reports
check_trade_limits(r, ps, balance, trade_amount) ==
    /\ ~limits_reached(r, ps)
    /\ ~(balance < trade_amount)

record_trade(r, pnl) ==
    [r EXCEPT !.daily_trades = @ + 1,
              !.daily_loss = IF pnl < 0 THEN @ + Abs(pnl) ELSE @]

can_open_position(ps, sym) == ~has_open_position(ps, sym)

\* history: the counters restart when the RiskManager's counters are reset
HistAfterReset(r, date) ==
    IF date > r.last_reset
    THEN [hist EXCEPT !.executed = 0, !.buys = 0, !.losses = 0,
                      !.dropped = r.daily_trades]
    ELSE hist

Loss(pnl) == IF pnl < 0 THEN Abs(pnl) ELSE 0

\* ------------------------------------------------- news-handler threads
HIdle ==
    [pc |-> "idle", signals |-> <<>>, sym |-> "", qty |-> 0, price |-> 0, exec |-> 0,
     oid |-> 0, pid |-> 0, entry |-> 0, pnl |-> 0, seen |-> 0, buf |-> <<>>]

\* execute_signal on the first signal of the list
Dispatch(signals) ==
    IF signals = <<>> THEN HIdle
    ELSE [HIdle EXCEPT !.signals = signals,
                       !.sym = Head(signals).symbol,
                       !.pc = IF Head(signals).action = "buy"
                              THEN "buy_check" ELSE "sell_find"]

\* a faulty variant: the end of a signal's execution ends the whole batch
AbortBatch(h) == HIdle

\* the signal's execution ended (result, None or a logged TradingError):
\* process_news_for_trading goes on with the next signal
NextSignal(h) == Dispatch(Tail(handler[h].signals))

supVars == <<monitors, manager, mgmt, main>>

\* analyze_news_for_trading calls _has_open_position, which reads the
\* positions file, only for bad news about a supported coin.  (One read per
\* event here; the code reads once for each such coin.)
asks_store(ev) ==
    /\ ~(ev.confidence < min_confidence)
    /\ ev.sentiment = "negative" /\ ev.score < -sentiment_threshold
    /\ \E i \in DOMAIN ev.coins : is_coin_supported(ev.coins[i])

\* process_news_for_trading: analyse the event, start on the first signal
ProcessNewsFrom(h, events) ==
    /\ handler[h].pc = "idle"
    /\ env.events < MaxEvents
    /\ \E ev \in events, ps \in LoadPositions :
          /\ ~asks_store(ev) => ps = positions
          /\ handler' = [handler EXCEPT ![h] =
                            Dispatch(analyze_news_for_trading(ev, ps))]
          /\ env' = [AfterLoad(ps, positions) EXCEPT !.events = @ + 1, !.news = ev]
    /\ UNCHANGED <<positions, orders, risk, today, supVars, hist>>

ProcessNews(h) == ProcessNewsFrom(h, TradingEvents)

\* the same for good news about one or two coins
ProcessPairNews(h) == ProcessNewsFrom(h, PairEvents)

\* the same for bad news about one coin
ProcessSellNews(h) == ProcessNewsFrom(h, SellEvents)

\* the same for a scored event of any kind
AnalyzeNews(h) == ProcessNewsFrom(h, NewsEvents)

\* _execute_buy: risk_manager.check_trade_limits(trade_amount).  The balance
\* is requested only when none of the three limits is reached; an error of the
\* request is logged and the check returns False.  (env.balance: the Venue's
\* last answer.)
BuyCheckLimits(h) ==
    /\ handler[h].pc = "buy_check"
    /\ \E answer \in BalanceAnswers, ps \in LoadPositions :
          LET r == reset_daily_counters(risk, today)
              asked == ~limits_reached(r, ps)
              e == AfterLoad(ps, positions)
          IN  /\ counters_reached(r) => ps = positions
              /\ risk' = r
              /\ hist' = HistAfterReset(risk, today)
              /\ env' = IF asked THEN [e EXCEPT !.balance = answer] ELSE e
              /\ handler' = [handler EXCEPT ![h] =
                     IF /\ asked
                        /\ answer.ok
                        /\ check_trade_limits(r, ps, answer.free, trade_amount_usdt)
                     THEN [@ EXCEPT !.pc = "buy_can_open"]
                     ELSE NextSignal(h)]
    /\ UNCHANGED <<positions, orders, today, supVars>>

\* _execute_buy: risk_manager.can_open_position(signal.symbol)
BuyCanOpen(h) ==
    /\ handler[h].pc = "buy_can_open"
    /\ \E ps \in LoadPositions :
          /\ handler' = [handler EXCEPT ![h] =
                 IF can_open_position(ps, handler[h].sym)
                 THEN [@ EXCEPT !.pc = "buy_qty"]
                 ELSE NextSignal(h)]
          /\ env' = AfterLoad(ps, positions)
    /\ UNCHANGED <<positions, orders, risk, today, supVars, hist>>

\* _execute_buy: binance_api.calculate_buy_quantity (its own quote)
BuyQuantity(h) ==
    /\ handler[h].pc = "buy_qty"
    /\ \/ \E p \in Quotes(handler[h].sym) :
             handler' = [handler EXCEPT ![h] =
                 [@ EXCEPT !.qty = calculate_buy_quantity(handler[h].sym, trade_amount_usdt, p),
                           !.pc = "buy_price"]]
       \/ handler' = [handler EXCEPT ![h] = NextSignal(h)]     \* BinanceAPIError
    /\ UNCHANGED <<positions, orders, risk, today, supVars, env, hist>>

\* _execute_buy: current_price = binance_api.get_price (a second quote)
BuyPrice(h) ==
    /\ handler[h].pc = "buy_price"
    /\ \/ \E p \in Quotes(handler[h].sym) :
             handler' = [handler EXCEPT ![h] = [@ EXCEPT !.price = p, !.pc = "buy_order"]]
       \/ handler' = [handler EXCEPT ![h] = NextSignal(h)]     \* BinanceAPIError
    /\ UNCHANGED <<positions, orders, risk, today, supVars, env, hist>>

\* a faulty variant: a rejected market buy is still counted as a trade of the day
BuyOrderCountsRejected(h) ==
    /\ handler[h].pc = "buy_order"
    /\ \/ /\ \E e \in Quotes(handler[h].sym) :
                handler' = [handler EXCEPT ![h] =
                               [@ EXCEPT !.exec = e, !.pc = "buy_order_load"]]
          /\ hist' = [hist EXCEPT !.executed = @ + 1, !.buys = @ + 1]
          /\ risk' = risk
       \/ /\ handler' = [handler EXCEPT ![h] = NextSignal(h)]
          /\ hist' = hist
          /\ risk' = record_trade(risk, 0)
    /\ UNCHANGED <<positions, orders, today, supVars, env>>

\* _execute_buy: binance_api.create_market_buy_order, executed at the Venue's price
BuyOrder(h) ==
    /\ handler[h].pc = "buy_order"
    /\ \/ /\ \E e \in Quotes(handler[h].sym) :
                handler' = [handler EXCEPT ![h] =
                               [@ EXCEPT !.exec = e, !.pc = "buy_order_load"]]
          /\ hist' = [hist EXCEPT !.executed = @ + 1, !.buys = @ + 1]
       \/ /\ handler' = [handler EXCEPT ![h] = NextSignal(h)]  \* order rejected
          /\ hist' = hist
    /\ UNCHANGED <<positions, orders, risk, today, supVars, env>>

\* save_trading_order: orders = self._load_json(self.orders_file)
BuySaveOrderLoad(h) ==
    /\ handler[h].pc = "buy_order_load"
    /\ \E data \in LoadOrders :
          /\ handler' = [handler EXCEPT ![h] = [@ EXCEPT !.buf = data, !.pc = "buy_order_save"]]
          /\ env' = AfterLoad(data, orders)
    /\ UNCHANGED <<positions, orders, risk, today, supVars, hist>>

\* save_trading_order: generate the id, append, self._save_json
BuySaveOrderSave(h) ==
    /\ handler[h].pc = "buy_order_save"
    /\ LET me == handler[h]
           id == generate_id(me.buf)
       IN  /\ orders' = Append(me.buf,
                          NewOrder(id, me.sym, "BUY", me.qty, me.price, me.exec, 0))
           /\ handler' = [handler EXCEPT ![h] =
                             [@ EXCEPT !.oid = id, !.buf = <<>>, !.pc = "buy_pos_load"]]
    /\ UNCHANGED <<positions, risk, today, supVars, env, hist>>

\* save_position: positions = self._load_json(self.positions_file)
BuySavePositionLoad(h) ==
    /\ handler[h].pc = "buy_pos_load"
    /\ \E data \in LoadPositions :
          /\ handler' = [handler EXCEPT ![h] = [@ EXCEPT !.buf = data, !.pc = "buy_pos_save"]]
          /\ env' = AfterLoad(data, positions)
    /\ UNCHANGED <<positions, orders, risk, today, supVars, hist>>

\* save_position: generate the id, append, self._save_json
BuySavePositionSave(h) ==
    /\ handler[h].pc = "buy_pos_save"
    /\ LET me == handler[h]
           id == generate_id(me.buf)
       IN  /\ positions' = Append(me.buf, NewPosition(id, me.sym, me.qty, me.price, me.oid))
           /\ handler' = [handler EXCEPT ![h] =
                             [@ EXCEPT !.pid = id, !.buf = <<>>, !.pc = "buy_link_load"]]
    /\ UNCHANGED <<orders, risk, today, supVars, env, hist>>

\* update_trading_order(order_id, {'position_id': position_id}): load
BuyLinkLoad(h) ==
    /\ handler[h].pc = "buy_link_load"
    /\ \E data \in LoadOrders :
          /\ handler' = [handler EXCEPT ![h] = [@ EXCEPT !.buf = data, !.pc = "buy_link_save"]]
          /\ env' = AfterLoad(data, orders)
    /\ UNCHANGED <<positions, orders, risk, today, supVars, hist>>

\* update_trading_order: update the record, save
BuyLinkSave(h) ==
    /\ handler[h].pc = "buy_link_save"
    /\ orders' = UpdateRecord(handler[h].buf, handler[h].oid,
                              [position_id |-> handler[h].pid])
    /\ handler' = [handler EXCEPT ![h] = [@ EXCEPT !.buf = <<>>, !.pc = "buy_record"]]
    /\ UNCHANGED <<positions, risk, today, supVars, env, hist>>

\* _execute_buy: self.risk_manager.record_trade()
BuyRecord(h) ==
    /\ handler[h].pc = "buy_record"
    /\ risk' = record_trade(risk, 0)
    /\ hist' = [hist EXCEPT !.recorded = @ + 1]
    /\ handler' = [handler EXCEPT ![h] = NextSignal(h)]
    /\ UNCHANGED <<positions, orders, today, supVars, env>>

\* _execute_sell: find the first open position of the symbol
SellFind(h) ==
    /\ handler[h].pc = "sell_find"
    /\ \E ps \in LoadPositions :
          LET open == SelectSeq(get_open_positions(ps),
                                LAMBDA p : p.symbol = handler[h].sym)
          IN  /\ handler' = [handler EXCEPT ![h] =
                     IF open = <<>> THEN NextSignal(h)
                     ELSE [@ EXCEPT !.pid = open[1].id, !.qty = open[1].quantity,
                                    !.entry = open[1].entry_price, !.pc = "sell_price"]]
              /\ env' = AfterLoad(ps, positions)
    /\ UNCHANGED <<positions, orders, risk, today, supVars, hist>>

\* _execute_sell: current_price = binance_api.get_price
SellPrice(h) ==
    /\ handler[h].pc = "sell_price"
    /\ \/ \E p \in Quotes(handler[h].sym) :
             handler' = [handler EXCEPT ![h] = [@ EXCEPT !.price = p, !.pc = "sell_order"]]
       \/ handler' = [handler EXCEPT ![h] = NextSignal(h)]     \* BinanceAPIError
    /\ UNCHANGED <<positions, orders, risk, today, supVars, env, hist>>

\* _execute_sell: binance_api.create_market_sell_order for the whole quantity
SellOrder(h) ==
    /\ handler[h].pc = "sell_order"
    /\ \/ /\ \E e \in Quotes(handler[h].sym) :
                handler' = [handler EXCEPT ![h] =
                               [@ EXCEPT !.exec = e, !.pc = "sell_order_load"]]
          /\ hist' = [hist EXCEPT !.executed = @ + 1,
                                  !.sells[handler[h].pid] = @ + 1]
       \/ /\ handler' = [handler EXCEPT ![h] = NextSignal(h)]  \* order rejected
          /\ hist' = hist
    /\ UNCHANGED <<positions, orders, risk, today, supVars, env>>

SellSaveOrderLoad(h) ==
    /\ handler[h].pc = "sell_order_load"
    /\ \E data \in LoadOrders :
          /\ handler' = [handler EXCEPT ![h] = [@ EXCEPT !.buf = data, !.pc = "sell_order_save"]]
          /\ env' = AfterLoad(data, orders)
    /\ UNCHANGED <<positions, orders, risk, today, supVars, hist>>

SellSaveOrderSave(h) ==
    /\ handler[h].pc = "sell_order_save"
    /\ LET me == handler[h]
           id == generate_id(me.buf)
       IN  /\ orders' = Append(me.buf,
                          NewOrder(id, me.sym, "SELL", me.qty, me.price, me.exec, me.pid))
           /\ handler' = [handler EXCEPT ![h] =
                  [@ EXCEPT !.oid = id, !.buf = <<>>,
                            !.pnl = (me.price - me.entry) * me.qty,
                            !.pc = "sell_pos_load"]]
    /\ UNCHANGED <<positions, risk, today, supVars, env, hist>>

\* update_position(position['id'], position_updates): load
SellUpdatePositionLoad(h) ==
    /\ handler[h].pc = "sell_pos_load"
    /\ \E data \in LoadPositions :
          /\ handler' = [handler EXCEPT ![h] = [@ EXCEPT !.buf = data, !.pc = "sell_pos_save"]]
          /\ env' = AfterLoad(data, positions)
    /\ UNCHANGED <<positions, orders, risk, today, supVars, hist>>

\* update_position: status closed, realized P&L, exit order; save
SellUpdatePositionSave(h) ==
    /\ handler[h].pc = "sell_pos_save"
    /\ LET me == handler[h]
       IN  /\ positions' = UpdateRecord(me.buf, me.pid,
                  [status |-> "closed", current_price |-> me.price,
                   realized_pnl |-> me.pnl, exit_order_id |-> me.oid,
                   is_monitoring |-> FALSE])
           /\ hist' = IF FirstIndex(me.buf, me.pid) = 0 THEN hist
                      ELSE [hist EXCEPT !.losses = @ + Loss(me.pnl)]
    /\ handler' = [handler EXCEPT ![h] = [@ EXCEPT !.buf = <<>>, !.pc = "sell_record"]]
    /\ UNCHANGED <<orders, risk, today, supVars, env>>

\* _execute_sell: self.risk_manager.record_trade(realized_pnl).  The trade is
\* counted; for a loss, self.daily_loss += abs(pnl) reads daily_loss, calls
\* abs, where the interpreter may switch threads, and then stores the sum.
SellRecord(h) ==
    /\ handler[h].pc = "sell_record"
    /\ risk' = record_trade(risk, 0)
    /\ handler' = [handler EXCEPT ![h] =
           IF handler[h].pnl < 0
           THEN [@ EXCEPT !.seen = risk.daily_loss, !.pc = "sell_record_loss"]
           ELSE NextSignal(h)]
    /\ hist' = [hist EXCEPT !.recorded = @ + 1]
    /\ UNCHANGED <<positions, orders, today, supVars, env>>

\* record_trade: the store of self.daily_loss += abs(pnl)
SellRecordLoss(h) ==
    /\ handler[h].pc = "sell_record_loss"
    /\ risk' = [risk EXCEPT !.daily_loss = handler[h].seen + Abs(handler[h].pnl)]
    /\ handler' = [handler EXCEPT ![h] = NextSignal(h)]
    /\ UNCHANGED <<positions, orders, today, supVars, env, hist>>

\* a faulty variant: the monitor is seeded with half the position's quantity
NewMonitorHalf(p) ==
    [position_id |-> p.id, symbol |-> p.symbol, quantity |-> p.quantity \div 2,
     entry_price |-> p.entry_price, stop_loss_price |-> p.stop_loss_price,
     running |-> TRUE, pc |-> "top", price |-> 0, exec |-> 0, oid |-> 0,
     buf |-> <<>>, closes |-> 0, failed |-> FALSE]

\* ------------------------------------------------- PositionMonitor threads
\* PositionMonitor(position_data) followed by start(): the thread is at the
\* top of _monitor_loop.  closes and failed are history: how often
\* _execute_stop_loss was invoked (counted up to 2) and whether one failed.
NewMonitor(p) ==
    [position_id |-> p.id, symbol |-> p.symbol, quantity |-> p.quantity,
     entry_price |-> p.entry_price, stop_loss_price |-> p.stop_loss_price,
     running |-> TRUE, pc |-> "top", price |-> 0, exec |-> 0, oid |-> 0,
     buf |-> <<>>, closes |-> 0, failed |-> FALSE]

Mons == DOMAIN monitors
MonIds == 1..(3 * MaxStarts)          \* the monitor objects ever created
MgmtIds == 1..MaxStarts               \* one management thread per start()

\* monitor m exists and its thread is at pc
MonitorAt(m, pc) == m \in Mons /\ monitors[m].pc = pc
hvars == <<handler, manager, mgmt, main, env>>

\* while self.running: position = self._get_current_position(); break unless open
MonitorLoop(m) ==
    /\ MonitorAt(m, "top")
    /\ \E ps \in LoadPositions :
          LET me == monitors[m]
              found == FindPosition(ps, me.position_id)
          IN  /\ ~me.running => ps = positions
              /\ monitors' = [monitors EXCEPT ![m] =
                     IF ~me.running THEN [@ EXCEPT !.pc = "done"]
                     ELSE IF found = <<>> \/ found[1].status # "open"
                          THEN [@ EXCEPT !.pc = "done", !.running = FALSE]
                          ELSE [@ EXCEPT !.pc = "price"]]
              /\ env' = AfterLoad(ps, positions)
    /\ UNCHANGED <<positions, orders, risk, today, handler, manager, mgmt, main, hist>>

\* the stop-loss threshold persisted for a position (0: no such record)
PersistedStop(id) ==
    LET found == FindPosition(positions, id)
    IN  IF found = <<>> THEN 0 ELSE found[1].stop_loss_price

\* a faulty variant: an error in a tick ends the monitor
PollErrorEndsMonitor(me) == [me EXCEPT !.pc = "done", !.running = FALSE]

\* the except clause of _monitor_loop: the error is logged, the thread sleeps
\* for check_interval and is back at the loop's test
AfterPollError(me) == [me EXCEPT !.pc = "top"]

\* current_price = binance_api.get_price(self.symbol); an error is logged and
\* the loop sleeps and goes on.  (hist.low: the last price request of a monitor
\* was answered, with a quote at or below the position's threshold, in memory
\* and as persisted.)
MonitorPrice(m) ==
    /\ MonitorAt(m, "price")
    /\ \/ \E p \in Quotes(monitors[m].symbol) :
             /\ monitors' = [monitors EXCEPT ![m] = [@ EXCEPT !.price = p, !.pc = "upd_load"]]
             /\ hist' = [hist EXCEPT !.low =
                            /\ p <= monitors[m].stop_loss_price
                            /\ p <= PersistedStop(monitors[m].position_id)]
       \/ /\ monitors' = [monitors EXCEPT ![m] = AfterPollError(@)]
          /\ hist' = [hist EXCEPT !.low = FALSE]
    /\ UNCHANGED <<positions, orders, risk, today, hvars>>

\* data_store.update_position(self.position_id, {current_price, unrealized_pnl}): load
MonitorUpdateLoad(m) ==
    /\ MonitorAt(m, "upd_load")
    /\ \E data \in LoadPositions :
          /\ monitors' = [monitors EXCEPT ![m] = [@ EXCEPT !.buf = data, !.pc = "upd_save"]]
          /\ env' = AfterLoad(data, positions)
    /\ UNCHANGED <<positions, orders, risk, today, handler, manager, mgmt, main, hist>>

StopLossTriggered(current_price, stop_loss_price) == current_price <= stop_loss_price

\* update_position: save; then the stop-loss condition against self.stop_loss_price
MonitorUpdateSave(m) ==
    /\ MonitorAt(m, "upd_save")
    /\ LET me == monitors[m]
       IN  /\ positions' = UpdateRecord(me.buf, me.position_id,
                  [current_price |-> me.price,
                   unrealized_pnl |-> (me.price - me.entry_price) * me.quantity])
           /\ monitors' = [monitors EXCEPT ![m] =
                  IF StopLossTriggered(me.price, me.stop_loss_price)
                  THEN [@ EXCEPT !.buf = <<>>, !.pc = "sl_sell",
                                 !.closes = IF @ < 2 THEN @ + 1 ELSE @]
                  ELSE [@ EXCEPT !.buf = <<>>, !.pc = "top"]]
    /\ UNCHANGED <<orders, risk, today, hvars, hist>>

\* the monitor loop after _execute_stop_loss raised StopLossError: the loop's
\* except clause logs it, sleeps and the loop goes on
AfterStopLossError(me) == [me EXCEPT !.failed = TRUE, !.buf = <<>>, !.pc = "top"]

\* _execute_stop_loss: binance_api.create_market_sell_order(symbol, quantity)
MonitorStopLossSell(m) ==
    /\ MonitorAt(m, "sl_sell")
    /\ \/ /\ \E e \in Quotes(monitors[m].symbol) :
                monitors' = [monitors EXCEPT ![m] =
                                [@ EXCEPT !.exec = e, !.pc = "sl_order_load"]]
          /\ hist' = [hist EXCEPT !.executed = @ + 1, !.sold = TRUE,
                                  !.sells[monitors[m].position_id] = @ + 1]
       \/ /\ monitors' = [monitors EXCEPT ![m] = AfterStopLossError(@)]
          /\ hist' = [hist EXCEPT !.sold = FALSE]
    /\ UNCHANGED <<positions, orders, risk, today, hvars>>

\* _execute_stop_loss: data_store.save_trading_order(order_data): load
MonitorStopLossOrderLoad(m) ==
    /\ MonitorAt(m, "sl_order_load")
    /\ \E data \in LoadOrders :
          /\ monitors' = [monitors EXCEPT ![m] = [@ EXCEPT !.buf = data, !.pc = "sl_order_save"]]
          /\ env' = AfterLoad(data, orders)
    /\ UNCHANGED <<positions, orders, risk, today, handler, manager, mgmt, main, hist>>

MonitorStopLossOrderSave(m) ==
    /\ MonitorAt(m, "sl_order_save")
    /\ LET me == monitors[m]
           id == generate_id(me.buf)
       IN  /\ orders' = Append(me.buf, NewOrder(id, me.symbol, "SELL", me.quantity,
                                                me.price, me.exec, me.position_id))
           /\ monitors' = [monitors EXCEPT ![m] =
                              [@ EXCEPT !.oid = id, !.buf = <<>>, !.pc = "sl_pos_load"]]
    /\ UNCHANGED <<positions, risk, today, hvars, hist>>

\* _execute_stop_loss: data_store.update_position(self.position_id, ...): load
MonitorStopLossPositionLoad(m) ==
    /\ MonitorAt(m, "sl_pos_load")
    /\ \E data \in LoadPositions :
          /\ monitors' = [monitors EXCEPT ![m] = [@ EXCEPT !.buf = data, !.pc = "sl_pos_save"]]
          /\ env' = AfterLoad(data, positions)
    /\ UNCHANGED <<positions, orders, risk, today, handler, manager, mgmt, main, hist>>

\* what _execute_stop_loss does once the position is persisted as stopped:
\* it returns, and _monitor_loop breaks and clears self.running
AfterStopLoss(me) == [me EXCEPT !.buf = <<>>, !.pc = "done", !.running = FALSE]

\* update_position: status stopped, realized P&L from the executed price; save
MonitorStopLossPositionSave(m) ==
    /\ MonitorAt(m, "sl_pos_save")
    /\ LET me == monitors[m]
           realized_pnl == (me.exec - me.entry_price) * me.quantity
       IN  /\ positions' = UpdateRecord(me.buf, me.position_id,
                  [status |-> "stopped", current_price |-> me.exec,
                   realized_pnl |-> realized_pnl, exit_order_id |-> me.oid,
                   is_monitoring |-> FALSE])
           /\ hist' = IF FirstIndex(me.buf, me.position_id) = 0 THEN hist
                      ELSE [hist EXCEPT !.losses = @ + Loss(realized_pnl)]
           /\ monitors' = [monitors EXCEPT ![m] = AfterStopLoss(@)]
    /\ UNCHANGED <<orders, risk, today, hvars>>

\* --------------------------------------------------------- StopLossManager
Registered == {id \in PosIds : manager.registry[id] # 0}

\* monitor.stop() on every monitor in `ms`: running := False; join(timeout=5)
\* returns when the thread has ended or the timeout has passed
StopMonitors(ms) ==
    [m \in DOMAIN monitors |->
        IF m \in ms THEN [monitors[m] EXCEPT !.running = FALSE] ELSE monitors[m]]

\* the positions a scan of open_positions still has to look at
ScanDone(t) == t.i > Len(t.open)

\* _add_position_monitor is reached for position p (is_monitoring, and in the
\* management loop not in self.monitors) and its own check of self.monitors passes
NeedsMonitor(p) ==
    /\ p.is_monitoring
    /\ manager.registry[p.id] = 0

\* management thread t exists and is at pc
ManagementAt(t, pc) == t \in DOMAIN mgmt /\ mgmt[t].pc = pc

TIdle == [pc |-> "top", open |-> <<>>, i |-> 0, newmon |-> 0, seen |-> <<>>]

\* _management_loop: while self.running: open_positions = get_open_positions()
\* (seen is history: the positions file as this pass read it)
ManagementLoop(t) ==
    /\ ManagementAt(t, "top")
    /\ \E ps \in LoadPositions :
          /\ ~manager.running => ps = positions
          /\ mgmt' = [mgmt EXCEPT ![t] =
                 IF ~manager.running THEN [TIdle EXCEPT !.pc = "done"]
                 ELSE [TIdle EXCEPT !.pc = "scan", !.open = get_open_positions(ps),
                                    !.i = 1, !.seen = ps]]
          /\ env' = AfterLoad(ps, positions)
    /\ UNCHANGED <<positions, orders, risk, today, handler, monitors, manager, main, hist>>

\* the loop over open_positions; _add_position_monitor up to monitor.start()
ManagementScan(t) ==
    /\ ManagementAt(t, "scan")
    /\ LET me == mgmt[t]
       IN  IF ScanDone(me)
           THEN /\ mgmt' = [mgmt EXCEPT ![t] = [@ EXCEPT !.pc = "remove"]]
                /\ monitors' = monitors
           ELSE IF NeedsMonitor(me.open[me.i])
           THEN /\ monitors' = Append(monitors, NewMonitor(me.open[me.i]))
                /\ mgmt' = [mgmt EXCEPT ![t] =
                               [@ EXCEPT !.newmon = Len(monitors) + 1, !.pc = "register"]]
           ELSE /\ mgmt' = [mgmt EXCEPT ![t] = [@ EXCEPT !.i = @ + 1]]
                /\ monitors' = monitors
    /\ UNCHANGED <<positions, orders, risk, today, handler, manager, main, env, hist>>

\* _add_position_monitor: self.monitors[position_id] = monitor
ManagementRegister(t) ==
    /\ ManagementAt(t, "register")
    /\ LET me == mgmt[t]
       IN  /\ manager' = [manager EXCEPT !.registry[me.open[me.i].id] = me.newmon]
           /\ mgmt' = [mgmt EXCEPT ![t] = [@ EXCEPT !.newmon = 0, !.i = @ + 1, !.pc = "scan"]]
    /\ UNCHANGED <<positions, orders, risk, today, handler, monitors, main, env, hist>>

\* the ids whose monitors a pass keeps
CurrentOpenIds(open) == {open[i].id : i \in {j \in DOMAIN open : open[j].is_monitoring}}

\* stop and delete the monitors of positions that are no longer open; sleep
ManagementRemove(t) ==
    /\ ManagementAt(t, "remove")
    /\ LET gone == Registered \ CurrentOpenIds(mgmt[t].open)
       IN  /\ monitors' = StopMonitors({manager.registry[id] : id \in gone})
           /\ manager' = [manager EXCEPT !.registry =
                             [id \in PosIds |-> IF id \in gone THEN 0 ELSE @[id]]]
    /\ mgmt' = [mgmt EXCEPT ![t] = [@ EXCEPT !.open = <<>>, !.i = 0, !.pc = "top"]]
    /\ UNCHANGED <<positions, orders, risk, today, handler, main, env, hist>>

\* ------------------------------------------------------------ main thread
NoSummary == <<>>                      \* get_trading_summary has not returned yet
MIdle == [pc |-> "idle", open |-> <<>>, i |-> 0, newmon |-> 0, id |-> 0, level |-> 0,
          buf |-> <<>>, out |-> NoSummary]

\* StopLossManager.start(): self.running = True; _start_existing_monitors reads
\* the open positions.  (start() on a running manager returns at once.)
Start ==
    /\ main.pc = "idle"
    /\ ~manager.running
    /\ env.starts < MaxStarts
    /\ manager' = [manager EXCEPT !.running = TRUE]
    /\ \E ps \in LoadPositions :
          /\ main' = [MIdle EXCEPT !.pc = "start_scan", !.open = get_open_positions(ps),
                                   !.i = 1]
          /\ env' = [AfterLoad(ps, positions) EXCEPT !.starts = @ + 1]
    /\ UNCHANGED <<positions, orders, risk, today, handler, monitors, mgmt, hist>>

\* StopLossManager.start() on a running manager: "if self.running: return"
StartRunning ==
    /\ main.pc = "idle"
    /\ manager.running
    /\ env.starts < MaxStarts
    /\ env' = [env EXCEPT !.starts = @ + 1]
    /\ UNCHANGED <<positions, orders, risk, today, handler, monitors, manager, mgmt, main, hist>>

\* _start_existing_monitors: _add_position_monitor up to monitor.start()
StartScan ==
    /\ main.pc = "start_scan"
    /\ IF ScanDone(main)
       THEN /\ main' = [main EXCEPT !.pc = "start_thread"]
            /\ monitors' = monitors
       ELSE IF NeedsMonitor(main.open[main.i])
       THEN /\ monitors' = Append(monitors, NewMonitor(main.open[main.i]))
            /\ main' = [main EXCEPT !.newmon = Len(monitors) + 1, !.pc = "start_register"]
       ELSE /\ main' = [main EXCEPT !.i = @ + 1]
            /\ monitors' = monitors
    /\ UNCHANGED <<positions, orders, risk, today, handler, manager, mgmt, env, hist>>

StartRegister ==
    /\ main.pc = "start_register"
    /\ manager' = [manager EXCEPT !.registry[main.open[main.i].id] = main.newmon]
    /\ main' = [main EXCEPT !.newmon = 0, !.i = @ + 1, !.pc = "start_scan"]
    /\ UNCHANGED <<positions, orders, risk, today, handler, monitors, mgmt, env, hist>>

\* start(): self.management_thread = Thread(target=self._management_loop); start()
StartThread ==
    /\ main.pc = "start_thread"
    /\ mgmt' = Append(mgmt, TIdle)
    /\ main' = MIdle
    /\ UNCHANGED <<positions, orders, risk, today, handler, monitors, manager, env, hist>>

\* StopLossManager.stop(): self.running = False
Stop ==
    /\ main.pc = "idle"
    /\ manager.running
    /\ manager' = [manager EXCEPT !.running = FALSE]
    /\ main' = [main EXCEPT !.pc = "stop_monitors"]
    /\ UNCHANGED <<positions, orders, risk, today, handler, monitors, mgmt, env, hist>>

\* stop(): monitor.stop() for every registered monitor; self.monitors.clear()
StopAllMonitors ==
    /\ main.pc = "stop_monitors"
    /\ monitors' = StopMonitors({manager.registry[id] : id \in Registered})
    /\ manager' = [manager EXCEPT !.registry = [id \in PosIds |-> 0]]
    /\ main' = [main EXCEPT !.pc = "stop_join"]
    /\ UNCHANGED <<positions, orders, risk, today, handler, mgmt, env, hist>>

\* stop(): self.management_thread.join(timeout=10) returns: the thread has
\* ended, or it is still asleep (30 s) or inside a pass
StopJoin ==
    /\ main.pc = "stop_join"
    /\ main' = MIdle
    /\ UNCHANGED <<positions, orders, risk, today, handler, monitors, manager, mgmt, env, hist>>

\* update_stop_loss(position_id, new_stop_loss_price): the monitor's threshold
UpdateStopLoss ==
    /\ main.pc = "idle"
    /\ env.updates < MaxUpdates
    /\ env' = [env EXCEPT !.updates = @ + 1]
    /\ \E id \in PosIds, level \in StopLevels :
          IF manager.registry[id] # 0
          THEN /\ monitors' = [monitors EXCEPT ![manager.registry[id]].stop_loss_price = level]
               /\ main' = [MIdle EXCEPT !.pc = "usl_load", !.id = id, !.level = level]
          ELSE /\ monitors' = monitors           \* "No monitor found": a warning
               /\ main' = main
    /\ UNCHANGED <<positions, orders, risk, today, handler, manager, mgmt, hist>>

\* update_stop_loss: data_store.update_position(position_id, {stop_loss_price}): load
UpdateStopLossLoad ==
    /\ main.pc = "usl_load"
    /\ \E data \in LoadPositions :
          /\ main' = [main EXCEPT !.buf = data, !.pc = "usl_save"]
          /\ env' = AfterLoad(data, positions)
    /\ UNCHANGED <<positions, orders, risk, today, handler, monitors, manager, mgmt, hist>>

UpdateStopLossSave ==
    /\ main.pc = "usl_save"
    /\ positions' = UpdateRecord(main.buf, main.id, [stop_loss_price |-> main.level])
    /\ main' = MIdle
    /\ UNCHANGED <<orders, risk, today, handler, monitors, manager, mgmt, env, hist>>

\* ----------------------------------------------------- the trading summary
\* get_trading_orders(limit) / get_all_positions(limit): newest first, the
\* first `limit` of them (records are appended in the order of their creation)
RECURSIVE Reverse(_)
Reverse(data) == IF data = <<>> THEN <<>> ELSE Append(Reverse(Tail(data)), Head(data))

\* data[:n]
Take(data, n) == IF Len(data) <= n THEN data ELSE SubSeq(data, 1, n)

Recent(data, limit) == Take(Reverse(data), limit)

\* sum(pos.get('realized_pnl', 0) for pos in positions)
RECURSIVE SumRealizedPnl(_)
SumRealizedPnl(ps) ==
    IF ps = <<>> THEN 0 ELSE Head(ps).realized_pnl + SumRealizedPnl(Tail(ps))

\* one value of the summary: `what` names the quantity that was computed
Value(what, num, list) == [what |-> what, num |-> num, list |-> list]

\* the dict display of get_trading_summary as written, a list of key: value
\* pairs in the order of the source text
SummaryItems(os, ps, open, free, r) ==
    << <<"total_trades", Value("total_trades", Len(os), <<>>)>>,
       <<"open_positions", Value("open_positions_count", Len(open), <<>>)>>,
       <<"total_pnl", Value("total_pnl", SumRealizedPnl(ps), <<>>)>>,
       <<"balances", Value("balances", free, <<>>)>>,
       <<"recent_orders", Value("recent_orders", 0, Take(os, recent_orders_shown))>>,
       <<"open_positions", Value("open_positions", 0, open)>>,
       <<"risk_stats", Value("risk_stats", 0, <<r.daily_trades, r.daily_loss,
                                                   max_daily_trades, daily_loss_limit>>)>> >>

\* a Python dict display: one entry per key; where a key is written more
\* than once, the last value written for it stays
dict(items) ==
    [k \in {items[i][1] : i \in DOMAIN items} |->
        LET last == CHOOSE i \in DOMAIN items :
                       /\ items[i][1] = k
                       /\ \A j \in DOMAIN items : items[j][1] = k => j <= i
        IN  items[last][2]]

\* get_trading_summary: orders = data_store.get_trading_orders(limit=50)
GetTradingSummary ==
    /\ main.pc = "idle"
    /\ \E data \in LoadOrders :
          /\ main' = [MIdle EXCEPT !.pc = "sum_positions",
                                   !.buf = Recent(data, summary_limit)]
          /\ env' = AfterLoad(data, orders)
    /\ UNCHANGED <<positions, orders, risk, today, handler, monitors, manager, mgmt, hist>>

\* positions = data_store.get_all_positions(limit=50)
SummaryPositions ==
    /\ main.pc = "sum_positions"
    /\ \E data \in LoadPositions :
          /\ main' = [main EXCEPT !.pc = "sum_open", !.open = Recent(data, summary_limit)]
          /\ env' = AfterLoad(data, positions)
    /\ UNCHANGED <<positions, orders, risk, today, handler, monitors, manager, mgmt, hist>>

\* open_positions = data_store.get_open_positions(); the balances from the
\* Venue ({} if the request fails); the summary is returned
SummaryReturn ==
    /\ main.pc = "sum_open"
    /\ \E data \in LoadPositions, answer \in BalanceAnswers :
          /\ main' = [MIdle EXCEPT !.out =
                         dict(SummaryItems(main.buf, main.open, get_open_positions(data),
                                           answer.free, risk))]
          /\ env' = AfterLoad(data, positions)
    /\ UNCHANGED <<positions, orders, risk, today, handler, monitors, manager, mgmt, hist>>

SummaryStep == GetTradingSummary \/ SummaryPositions \/ SummaryReturn

\* ------------------------------------------------------------------ clock
\* the UTC date advances  (hist.recorded: the record_trade calls made on the
\* present date)
NewDay ==
    /\ today < MaxDays
    /\ today' = today + 1
    /\ hist' = [hist EXCEPT !.recorded = 0]
    /\ UNCHANGED <<positions, orders, risk, handler, monitors, manager, mgmt, main, env>>

\* ------------------------------------------------------------ initial state
\* The Store's files outlive the process: the program starts on an empty data
\* directory or on one that an earlier run left, here with one open position
\* bought at the mock's base price, and its entry order.
WarmPositions == <<NewPosition(1, "BTCUSDT", 222, 45000, 1)>>
WarmOrders == <<NewOrder(1, "BTCUSDT", "BUY", 222, 45000, 45000, 1)>>

\* everything but the Store and the RiskManager, after construction
\* history before the first step: nothing executed, nothing refused
NoHistory ==
    [executed |-> 0, buys |-> 0, recorded |-> 0, losses |-> 0,
     sells |-> [id \in PosIds |-> 0], low |-> TRUE, sold |-> TRUE, dropped |-> 0]

InitThreads ==
    /\ today = 0
    /\ handler = [h \in Handlers |-> HIdle]
    /\ monitors = <<>>
    /\ manager = [running |-> FALSE, registry |-> [id \in PosIds |-> 0]]
    /\ mgmt = <<>>
    /\ main = MIdle
    /\ env = [events |-> 0, updates |-> 0, starts |-> 0, torn |-> 0, news |-> NoNews,
              balance |-> NoBalance]
    /\ hist = NoHistory

InitRest ==
    /\ risk = [daily_trades |-> 0, daily_loss |-> 0, last_reset |-> 0]
    /\ InitThreads

\* Stores an earlier run can have left: empty, one open position, that
\* position closed by a sell, or open positions for two symbols.
ClosedPositions ==
    <<UpdateFields(WarmPositions[1],
         [status |-> "closed", current_price |-> 45000, realized_pnl |-> 0,
          exit_order_id |-> 2, is_monitoring |-> FALSE])>>
ClosedOrders == Append(WarmOrders, NewOrder(2, "BTCUSDT", "SELL", 222, 45000, 45000, 1))
TwoPositions == Append(WarmPositions, NewPosition(2, "ETHUSDT", 3570, 2800, 2))
TwoOrders == Append(WarmOrders, NewOrder(2, "ETHUSDT", "BUY", 3570, 2800, 2800, 2))
Stores ==
    { [positions |-> <<>>, orders |-> <<>>],
      [positions |-> WarmPositions, orders |-> WarmOrders],
      [positions |-> ClosedPositions, orders |-> ClosedOrders],
      [positions |-> TwoPositions, orders |-> TwoOrders] }
InitStores ==
    /\ \E st \in Stores : positions = st.positions /\ orders = st.orders
    /\ InitRest

\* The RiskManager later in a trading day: counters below, one step below and
\* at their limits (daily_loss in 10^-6 USDT).
RiskStates ==
    { [daily_trades |-> 0, daily_loss |-> 0, last_reset |-> 0],
      [daily_trades |-> max_daily_trades - 1, daily_loss |-> 0, last_reset |-> 0],
      [daily_trades |-> max_daily_trades, daily_loss |-> 0, last_reset |-> 0],
      [daily_trades |-> max_daily_trades - 1,
       daily_loss |-> daily_loss_limit * QtyScale - 1, last_reset |-> 0],
      [daily_trades |-> max_daily_trades - 1,
       daily_loss |-> daily_loss_limit * QtyScale, last_reset |-> 0] }

\* A Store with max_open_positions - 1 and with max_open_positions open
\* positions, one per supported coin of the default configuration.
AlmostFullPositions ==
    <<NewPosition(1, "BTCUSDT", 222, 45000, 1), NewPosition(2, "ETHUSDT", 3570, 2800, 2),
      NewPosition(3, "BNBUSDT", 33300, 300, 3), NewPosition(4, "SOLUSDT", 100000, 100, 4)>>
FullPositions == Append(AlmostFullPositions, NewPosition(5, "ADAUSDT", 20000000, 1, 5))
EntryOrders(ps) ==
    [i \in DOMAIN ps |-> NewOrder(ps[i].entry_order_id, ps[i].symbol, "BUY", ps[i].quantity,
                                  ps[i].entry_price, ps[i].entry_price, ps[i].id)]
GateStores ==
    { [positions |-> <<>>, orders |-> <<>>],
      [positions |-> ClosedPositions, orders |-> ClosedOrders],
      [positions |-> AlmostFullPositions, orders |-> EntryOrders(AlmostFullPositions)],
      [positions |-> FullPositions, orders |-> EntryOrders(FullPositions)] }

InitGate ==
    /\ \E st \in GateStores : positions = st.positions /\ orders = st.orders
    /\ risk \in RiskStates
    /\ InitThreads

InitEmpty == positions = <<>> /\ orders = <<>> /\ InitRest
InitWarm == positions = WarmPositions /\ orders = WarmOrders /\ InitRest
Init == InitEmpty \/ InitWarm

\* ----------------------------------------------------------- specifications
HandlerBuy(h) ==
    \/ BuyCheckLimits(h) \/ BuyCanOpen(h) \/ BuyQuantity(h) \/ BuyPrice(h) \/ BuyOrder(h)
    \/ BuySaveOrderLoad(h) \/ BuySaveOrderSave(h)
    \/ BuySavePositionLoad(h) \/ BuySavePositionSave(h)
    \/ BuyLinkLoad(h) \/ BuyLinkSave(h) \/ BuyRecord(h)

HandlerSell(h) ==
    \/ SellFind(h) \/ SellPrice(h) \/ SellOrder(h)
    \/ SellSaveOrderLoad(h) \/ SellSaveOrderSave(h)
    \/ SellUpdatePositionLoad(h) \/ SellUpdatePositionSave(h)
    \/ SellRecord(h) \/ SellRecordLoss(h)

MonitorStep(m) ==
    \/ MonitorLoop(m) \/ MonitorPrice(m) \/ MonitorUpdateLoad(m) \/ MonitorUpdateSave(m)
    \/ MonitorStopLossSell(m) \/ MonitorStopLossOrderLoad(m) \/ MonitorStopLossOrderSave(m)
    \/ MonitorStopLossPositionLoad(m) \/ MonitorStopLossPositionSave(m)

ManagementStep(t) ==
    \/ ManagementLoop(t) \/ ManagementScan(t) \/ ManagementRegister(t) \/ ManagementRemove(t)

StartStep == Start \/ StartScan \/ StartRegister \/ StartThread
StopStep == Stop \/ StopAllMonitors \/ StopJoin
UpdateStep == UpdateStopLoss \/ UpdateStopLossLoad \/ UpdateStopLossSave

Next ==
    \/ \E h \in Handlers : ProcessNews(h) \/ HandlerBuy(h) \/ HandlerSell(h)
    \/ \E m \in MonIds : MonitorStep(m)
    \/ \E t \in MgmtIds : ManagementStep(t)
    \/ StartStep \/ StopStep \/ UpdateStep
    \/ NewDay

Spec == Init /\ [][Next]_vars

\* The signal path alone: both handler threads on an empty Store.
NextTrade == \E h \in Handlers : ProcessNews(h) \/ HandlerBuy(h) \/ HandlerSell(h)
SpecTrade == InitEmpty /\ [][NextTrade]_vars

\* One open position under supervision, closed by its monitor or by a sell
\* signal, while the caller adjusts its stop-loss.
NextClose ==
    \/ StartStep
    \/ \E m \in MonIds : MonitorStep(m)
    \/ ProcessNews("mock") \/ HandlerSell("mock")
    \/ UpdateStep
SpecClose == InitWarm /\ [][NextClose]_vars

\* Restarting the supervisor: start, stop, the management threads, and the
\* monitors as far as their price request.
NextRestart ==
    \/ StartStep \/ StopStep
    \/ \E t \in MgmtIds : ManagementStep(t)
    \/ \E m \in MonIds : MonitorLoop(m) \/ MonitorPrice(m)
SpecRestart == InitWarm /\ [][NextRestart]_vars

\* Reconciliation: the running supervisor, its management thread and the
\* monitors, while the caller adjusts a stop-loss.
\* Every read of this run gets the whole file.
WholeReads == env'.torn = env.torn
NextReconcile ==
    \/ (Start /\ WholeReads) \/ StartScan \/ StartRegister \/ StartThread
    \/ \E t \in MgmtIds :
          \/ ManagementLoop(t) /\ WholeReads
          \/ ManagementScan(t) \/ ManagementRegister(t) \/ ManagementRemove(t)
    \/ \E m \in MonIds :
          \/ MonitorLoop(m) /\ WholeReads
          \/ MonitorPrice(m)
          \/ MonitorUpdateLoad(m) /\ WholeReads
          \/ MonitorUpdateSave(m) \/ MonitorStopLossSell(m)
          \/ MonitorStopLossOrderLoad(m) /\ WholeReads
          \/ MonitorStopLossOrderSave(m)
          \/ MonitorStopLossPositionLoad(m) /\ WholeReads
          \/ MonitorStopLossPositionSave(m)
    \/ UpdateStopLoss \/ (UpdateStopLossLoad /\ WholeReads) \/ UpdateStopLossSave
SpecReconcile == InitWarm /\ [][NextReconcile]_vars

\* The same under fair scheduling: every monitor thread, every management
\* thread and the main thread inside a call keep being scheduled.
MainContinues ==
    StartScan \/ StartRegister \/ StartThread \/ UpdateStopLossLoad \/ UpdateStopLossSave
FairReconcile ==
    /\ \A m \in MonIds : WF_vars(MonitorStep(m))
    /\ \A t \in MgmtIds : WF_vars(ManagementStep(t))
    /\ WF_vars(MainContinues)
SpecReconcileFair == InitWarm /\ [][NextReconcile]_vars /\ FairReconcile

\* Warm restart: start() (also on a running manager), stop() and the monitors
\* on a Store that an earlier run left, while the management threads sleep.
NextWarm ==
    \/ StartStep \/ StartRunning \/ StopStep
    \/ \E m \in MonIds : MonitorStep(m)
SpecWarm == InitWarm /\ [][NextWarm]_vars

\* Signal generation alone: scored events of every kind on each of the Stores.
NextAnalyze == \E h \in Handlers : AnalyzeNews(h)
SpecAnalyze == InitStores /\ [][NextAnalyze]_vars

\* Selling only, from a Store with two open positions.
InitTwo == positions = TwoPositions /\ orders = TwoOrders /\ InitRest
NextLoss == \E h \in Handlers : ProcessSellNews(h) \/ HandlerSell(h)
SpecLoss == InitTwo /\ [][NextLoss]_vars

\* Buying only, from an empty Store: the two handler threads buy two symbols
\* while the Venue reports a sufficient balance and quotes one price per symbol.
SteadyPrice(sym) == IF sym = "BTCUSDT" THEN 45000 ELSE 2800
SteadyVenue ==
    /\ env'.balance.asked => env'.balance.ok /\ env'.balance.free >= trade_amount_usdt * 100
    /\ \A h \in Handlers :
          /\ handler'[h].price \in {0, SteadyPrice(handler'[h].sym)}
          /\ handler'[h].exec \in {0, SteadyPrice(handler'[h].sym)}
          /\ handler'[h].qty \in
                {0, calculate_buy_quantity(handler'[h].sym, trade_amount_usdt,
                                           SteadyPrice(handler'[h].sym))}
NextPair ==
    \E h \in Handlers :
        \/ ProcessPairNews(h)
        \/ BuyCheckLimits(h) /\ SteadyVenue
        \/ BuyCanOpen(h)
        \/ BuyQuantity(h) /\ SteadyVenue
        \/ BuyPrice(h) /\ SteadyVenue
        \/ BuyOrder(h) /\ SteadyVenue
        \/ BuySaveOrderLoad(h) \/ BuySaveOrderSave(h)
        \/ BuySavePositionLoad(h) \/ BuySavePositionSave(h)
        \/ BuyLinkLoad(h) \/ BuyLinkSave(h) \/ BuyRecord(h)
SpecPair == InitEmpty /\ [][NextPair]_vars

\* The running supervisor with reads that can fall into a write: its
\* management thread and the monitors of the open position.
\* The Venue quotes the entry price, so that no stop-loss triggers.
SteadyQuotes ==
    \A m \in DOMAIN monitors' : monitors'[m].price \in {0, SteadyPrice(monitors'[m].symbol)}
NextSupervise ==
    \/ (Start /\ WholeReads) \/ StartScan \/ StartRegister \/ StartThread
    \/ \E t \in MgmtIds : ManagementStep(t)
    \/ \E m \in MonIds :
          \/ MonitorLoop(m)
          \/ MonitorPrice(m) /\ SteadyQuotes
          \/ MonitorUpdateLoad(m) \/ MonitorUpdateSave(m)
SpecSupervise == InitWarm /\ [][NextSupervise]_vars

\* The summary read while one handler thread trades, on the Stores an earlier
\* run can have left.
NextSummary == ProcessNews("mock") \/ HandlerBuy("mock") \/ HandlerSell("mock") \/ SummaryStep
SpecSummary == InitStores /\ [][NextSummary]_vars

\* Buying next to the position limit: max_open_positions - 1 open positions,
\* none of them for BTC, and the two handler threads buying.
OneBelowLimit ==
    <<NewPosition(1, "ETHUSDT", 3570, 2800, 1), NewPosition(2, "BNBUSDT", 33300, 300, 2),
      NewPosition(3, "SOLUSDT", 100000, 100, 3), NewPosition(4, "ADAUSDT", 20000000, 1, 4)>>
InitLimit ==
    /\ positions = OneBelowLimit /\ orders = EntryOrders(OneBelowLimit)
    /\ InitRest
SpecLimit == InitLimit /\ [][NextPair]_vars

\* Late in a trading day: max_daily_trades - 1 buys were made and counted,
\* their positions were closed by stop-loss (which counts no trade) and lie
\* outside the listing; the two handler threads go on buying.
InitBusyDay ==
    /\ positions = <<>> /\ orders = <<>>
    /\ risk = [daily_trades |-> max_daily_trades - 1, daily_loss |-> 0, last_reset |-> 0]
    /\ today = 0
    /\ handler = [h \in Handlers |-> HIdle]
    /\ monitors = <<>>
    /\ manager = [running |-> FALSE, registry |-> [id \in PosIds |-> 0]]
    /\ mgmt = <<>>
    /\ main = MIdle
    /\ env = [events |-> 0, updates |-> 0, starts |-> 0, torn |-> 0, news |-> NoNews,
              balance |-> NoBalance]
    /\ hist = [NoHistory EXCEPT !.buys = max_daily_trades - 1]
SpecBusyDay == InitBusyDay /\ [][NextPair]_vars

\* Across midnight: one handler thread selling the open position and buying
\* again, while the UTC date advances.
NextRollover == ProcessNews("mock") \/ HandlerBuy("mock") \/ HandlerSell("mock") \/ NewDay
SpecRollover == InitWarm /\ [][NextRollover]_vars

\* The risk gate: one handler thread buying, on Stores and counters of a day
\* in progress, across a date rollover.
NextGate == ProcessNews("mock") \/ HandlerBuy("mock") \/ NewDay
SpecGate == InitGate /\ [][NextGate]_vars

\* ------------------------------------------------------------------ claims
StatusOf(ps, id) ==
    LET found == FindPosition(ps, id) IN IF found = <<>> THEN "none" ELSE found[1].status

OpenMonitoredIds ==
    {positions[i].id : i \in {j \in DOMAIN positions :
        positions[j].status = "open" /\ positions[j].is_monitoring}}

Live(m) == monitors[m].running /\ monitors[m].pc # "done"
LiveIds == {monitors[m].position_id : m \in {k \in Mons : Live(k)}}

ExitOrders(id) ==
    {i \in DOMAIN orders : orders[i].side = "SELL" /\ orders[i].position_id = id}

\* no handler is inside a signal and no monitor is inside a close
Quiescent ==
    /\ \A h \in Handlers : handler[h].pc = "idle"
    /\ \A m \in Mons : monitors[m].pc \in {"top", "price", "upd_load", "upd_save", "done"}

PollPcs == {"price", "upd_load", "upd_save"}
ClosePcs == {"sl_sell", "sl_order_load", "sl_order_save", "sl_pos_load", "sl_pos_save"}

\* C1: a position is closed at most once: at most one market sell is executed
\* at the Venue for it and at most one SELL order is linked to it, whatever the
\* interleaving of its monitor's stop-loss and a sell signal.
C1_ClosedAtMostOnce ==
    \A id \in PosIds : hist.sells[id] <= 1 /\ Cardinality(ExitOrders(id)) <= 1

\* C2: at most one position with status open per symbol, also when two handler
\* threads process buy signals for the same symbol.
C2_OneOpenPerSymbol ==
    \A sym \in Symbols :
        Cardinality({i \in DOMAIN positions :
            positions[i].status = "open" /\ positions[i].symbol = sym}) <= 1

\* C3: once a position's persisted status is closed or stopped, no step of any
\* thread makes it open again.
C3_StatusMonotone ==
    [][\A id \in PosIds :
          StatusOf(positions, id) \in {"closed", "stopped"}
              => StatusOf(positions', id) # "open"]_vars

\* C4: while the supervisor runs, if from some point on every quote a monitor
\* gets is at or below the threshold and the Venue's sells succeed, an
\* open-and-monitored position eventually has status stopped.
C4_StopLossEventually ==
    <>[](manager.running /\ hist.low /\ hist.sold)
        => ((1 \in OpenMonitoredIds) ~> (StatusOf(positions, 1) = "stopped"))

\* C5: after a monitor has invoked the stop-loss close it never executes
\* another poll tick, so it invokes the close at most once.
C5_CloseInvokedOnce ==
    \A m \in Mons :
        /\ monitors[m].closes <= 1
        /\ monitors[m].closes = 1 => monitors[m].pc \notin PollPcs

\* C6: a monitor whose stop-loss close failed terminates without retry: no
\* further poll tick and no further close attempt.
C6_NoRetryAfterFailedClose ==
    \A m \in Mons : monitors[m].failed => monitors[m].pc \notin (PollPcs \cup ClosePcs)

\* C7: record_trade is called exactly once per executed Venue order of every
\* kind: since the counters' last reset, daily_trades is the number of orders
\* the Venue executed.
C7_EveryOrderRecorded == Quiescent => risk.daily_trades = hist.executed

\* C8: daily_loss is non-negative and is the sum of the magnitudes of the
\* negative realized P&L persisted by the closes since the last reset, manual
\* or stop-loss.
C8_LossesAccumulated ==
    /\ risk.daily_loss >= 0
    /\ Quiescent => risk.daily_loss = hist.losses

\* C9: at most one live monitor thread per position id.
C9_OneLiveMonitor ==
    \A id \in PosIds : Cardinality({m \in Mons : Live(m) /\ monitors[m].position_id = id}) <= 1

\* C10: when a reconciliation pass completes on a running supervisor and the
\* positions file is as the pass read it, the positions with a live monitor
\* are exactly the open-and-monitored positions.
C10_PassReconciles ==
    [][\A t \in DOMAIN mgmt :
          (/\ mgmt[t].pc = "remove" /\ mgmt'[t].pc = "top"
           /\ mgmt[t].seen = positions /\ positions' = positions
           /\ manager'.running)
              => LiveIds' = OpenMonitoredIds']_vars

\* C11: after StopLossManager.stop() has returned (and until the next start())
\* the monitor registry is empty: no reconciliation pass that was in progress
\* registers a monitor after stop() cleared the registry.
C11_StoppedStaysStopped ==
    (main.pc = "idle" /\ ~manager.running /\ env.starts > 0) => Registered = {}

\* the monitor registered for position p runs with p's persisted values
SeededFor(p, reg, mons) ==
    /\ reg[p.id] # 0
    /\ mons[reg[p.id]].running
    /\ mons[reg[p.id]].stop_loss_price = p.stop_loss_price
    /\ mons[reg[p.id]].entry_price = p.entry_price
    /\ mons[reg[p.id]].quantity = p.quantity

\* C12: when start() returns on a manager that was not running, every position
\* that is open and monitored in the Store has a registered, running monitor
\* with the persisted threshold, entry price and quantity; start() on a running
\* manager changes neither the Store nor the monitors, registry and threads.
C12_WarmRestart ==
    [][/\ (main.pc = "start_thread" /\ main'.pc = "idle")
            => \A i \in DOMAIN positions' :
                  (positions'[i].status = "open" /\ positions'[i].is_monitoring)
                      => SeededFor(positions'[i], manager'.registry, monitors')
       /\ StartRunning
            => UNCHANGED <<positions, orders, monitors, manager, mgmt>>]_vars

\* monitor m submitted a stop-loss sell that the Venue executed
SoldBy(m) == monitors[m].exec # 0

\* C13: a stop request does not interrupt a close: a monitor task that has
\* ended after its stop-loss sell was submitted has persisted the exit order
\* and left its position stopped and unmonitored; in no state has such a
\* monitor ended while its position is still open.
C13_CloseCompletes ==
    \A m \in Mons :
        (monitors[m].pc = "done" /\ SoldBy(m))
            => /\ monitors[m].oid # 0
               /\ StatusOf(positions, monitors[m].position_id) = "stopped"
               /\ \A i \in DOMAIN positions :
                     positions[i].id = monitors[m].position_id => ~positions[i].is_monitoring

\* the cooperative part alone: once its sell is submitted a monitor leaves the
\* close only by persisting status stopped, whatever its running flag
CloseRunsToEnd ==
    [][\A m \in Mons :
          (monitors[m].pc \in (ClosePcs \ {"sl_sell"}))
              => \/ monitors'[m].pc \in (ClosePcs \ {"sl_sell"})
                 \/ /\ monitors'[m].pc = "done"
                    /\ StatusOf(positions', monitors[m].position_id) = "stopped"]_vars

\* a position record without the two fields a poll tick writes
OwnedByExecutor(p) == [p EXCEPT !.current_price = 0, !.unrealized_pnl = 0]

\* C14: the write-back of a monitor's poll tick changes only current_price and
\* unrealized_pnl of the monitor's own position: every other field of that
\* record and every other record of the positions file stay as they were.
C14_TickWritesOwnFields ==
    [][\A m \in MonIds :
          MonitorUpdateSave(m)
              => /\ Len(positions') = Len(positions)
                 /\ \A i \in DOMAIN positions :
                       IF positions[i].id = monitors[m].position_id
                       THEN OwnedByExecutor(positions'[i]) = OwnedByExecutor(positions[i])
                       ELSE positions'[i] = positions[i]]_vars

\* an event was delivered in this step
Delivered == env'.events = env.events + 1

\* the signals a handler thread got from the event delivered in this step
\* (none: the event gave no signals and the thread stays idle)
NewSignals ==
    IF \E h \in Handlers : handler'[h] # handler[h]
    THEN handler'[CHOOSE h \in Handlers : handler'[h] # handler[h]].signals
    ELSE <<>>

\* C15: every generated signal is justified: buy needs confidence >= 0.6,
\* sentiment positive and score > 0.3; sell needs confidence >= 0.6, sentiment
\* negative, score < -0.3 and an open position of the symbol in the Store at
\* generation; an event with confidence < 0.6 gives no signals.
C15_SignalsJustified ==
    [][Delivered =>
          LET ev == env'.news
              sigs == NewSignals
          IN  /\ ev.confidence < 60 => sigs = <<>>
              /\ \A i \in DOMAIN sigs :
                    /\ sigs[i].action = "buy"
                          => ev.confidence >= 60 /\ ev.sentiment = "positive" /\ ev.score > 30
                    /\ sigs[i].action = "sell"
                          => /\ ev.confidence >= 60 /\ ev.sentiment = "negative"
                             /\ ev.score < -30
                             /\ \E k \in DOMAIN positions :
                                   /\ positions[k].status = "open"
                                   /\ positions[k].symbol = sigs[i].symbol]_vars

\* C15 witness: a sell signal and a buy signal have been generated.
C15_Witness ==
    /\ \E h \in Handlers : handler[h].pc = "sell_find" /\ env.news.score = -31
    /\ \E h \in Handlers : handler[h].pc = "buy_check"

\* the trading pair of a supported coin, as a table
PairOf(coin) ==
    CASE coin \in {"BTC", "btc"} -> "BTCUSDT"
      [] coin = "ETH" -> "ETHUSDT"
      [] OTHER -> "unsupported"

\* the action an event asks for on a coin, given the Store: "none" if the coin
\* is unsupported or does not qualify
Asked(ev, ps, coin) ==
    IF PairOf(coin) = "unsupported" THEN "none"
    ELSE IF ev.sentiment = "positive" /\ ev.score > 30 THEN "buy"
    ELSE IF /\ ev.sentiment = "negative" /\ ev.score < -30
            /\ \E k \in DOMAIN ps : ps[k].status = "open" /\ ps[k].symbol = PairOf(coin)
         THEN "sell"
    ELSE "none"

Checks(h) == handler[h].pc = "buy_check" /\ handler'[h] # handler[h]
\* ... and the check allows
Allowed(h) == handler'[h].pc = "buy_can_open"

\* the limits of the claim on the counters after the step, and on the Store
LimitHit ==
    \/ risk'.daily_trades >= 20
    \/ risk'.daily_loss >= 100 * 1000000
    \/ Cardinality({i \in DOMAIN positions : positions[i].status = "open"}) >= 5

\* the counters change by the lazy rollover only
OnlyRollover ==
    risk' = IF today > risk.last_reset
            THEN [daily_trades |-> 0, daily_loss |-> 0, last_reset |-> today]
            ELSE risk

\* C17 as stated: RiskGate.check denies if and only if, after the lazy day
\* rollover, a limit is reached or the balance the Venue reports is below the
\* trade amount; it changes no counter apart from the rollover.
C17_DeniesIffLimit ==
    [][\A h \in Handlers :
          Checks(h) =>
              /\ ~Allowed(h) <=> (LimitHit \/ (env'.balance.ok /\ env'.balance.free < trade_amount_usdt))
              /\ OnlyRollover]_vars

\* C17 amended: RiskGate.check denies if and only if, after the lazy day
\* rollover, a limit is reached, or the balance request fails, or the balance
\* reported is below the trade amount; it changes no counter apart from the
\* rollover.
C17_DeniesIffLimitOrNoBalance ==
    [][\A h \in Handlers :
          Checks(h) =>
              /\ ~Allowed(h) <=> (LimitHit \/ ~env'.balance.ok \/ env'.balance.free < trade_amount_usdt)
              /\ OnlyRollover]_vars

\* C17 witness: with no limit reached a check was denied because the balance
\* request failed, and the signal's handler is idle again.
C17_Witness ==
    /\ env.balance.asked /\ ~env.balance.ok
    /\ env.events = 1
    /\ handler["mock"].pc = "idle"
    /\ risk.daily_trades = 19

\* handler thread h runs RiskGate.canOpen in this step
ChecksCanOpen(h) == handler[h].pc = "buy_can_open" /\ handler'[h] # handler[h]

\* an open position of the symbol is in the Store
HoldsOpen(sym) ==
    \E i \in DOMAIN positions : positions[i].status = "open" /\ positions[i].symbol = sym

\* the gate has to deny the buy signal of handler thread h in this step
MustDeny(h) ==
    \/ Checks(h) /\ (LimitHit \/ ~env'.balance.ok \/ env'.balance.free < trade_amount_usdt)
    \/ ChecksCanOpen(h) /\ HoldsOpen(handler[h].sym)

\* C18: a buy signal that RiskGate.check or RiskGate.canOpen denies is dropped:
\* the handler goes on with the signals after it, no order is submitted to the
\* Venue, the orders and positions files are not written and daily_trades and
\* daily_loss are not incremented.
C18_DeniedBuyIsDropped ==
    [][\A h \in Handlers :
          MustDeny(h) =>
              /\ handler'[h].signals = Tail(handler[h].signals)
              /\ handler'[h].pc \in {"idle", "buy_check", "sell_find"}
              /\ orders' = orders /\ positions' = positions
              /\ hist'.executed <= hist.executed
              /\ risk'.daily_trades <= risk.daily_trades
              /\ risk'.daily_loss <= risk.daily_loss]_vars

\* C18 witness: with daily_trades at max_daily_trades a buy signal was
\* dropped: nothing was executed and the handler is idle.
C18_Witness ==
    /\ risk.daily_trades = max_daily_trades
    /\ env.events = 1 /\ env.news.sentiment = "positive"
    /\ handler["mock"].pc = "idle"
    /\ hist.executed = 0 /\ ~env.balance.asked

\* handler thread g has persisted the open position of its buy (save_position
\* returned) and the buy has not ended yet
PersistedBy(g) == handler[g].pc \in {"buy_link_load", "buy_link_save", "buy_record"}

\* C19: RiskGate.canOpen(symbol) denies exactly when the Store holds an open
\* position of the symbol at the time of the call; and when a buy has
\* persisted its open position and nothing has closed or stopped it, a later
\* buy signal for the same symbol is denied.
C19_SecondBuyDenied ==
    [][\A h \in Handlers :
          ChecksCanOpen(h) =>
              /\ handler'[h].pc # "buy_qty" <=> HoldsOpen(handler[h].sym)
              /\ \A g \in Handlers \ {h} :
                    PersistedBy(g) /\ handler[g].sym = handler[h].sym
                        => handler'[h].pc # "buy_qty"]_vars

\* a RiskGate.check runs in this step on a UTC date later than last_reset
RollsOver == (\E h \in Handlers : Checks(h)) /\ today > risk.last_reset

\* C20: daily_trades and daily_loss are reset to 0, and last_reset becomes the
\* current date, in every check that runs on a UTC date later than last_reset;
\* a check on the date of last_reset leaves the counters as they are; and no
\* other step resets or decreases daily_trades or daily_loss or changes
\* last_reset.
C20_ResetOnlyOnRollover ==
    [][/\ RollsOver =>
            risk' = [daily_trades |-> 0, daily_loss |-> 0, last_reset |-> today]
       /\ ~RollsOver =>
            /\ risk'.daily_trades >= risk.daily_trades
            /\ risk'.daily_loss >= risk.daily_loss
            /\ risk'.last_reset = risk.last_reset
       /\ (\E h \in Handlers : Checks(h)) /\ ~RollsOver => risk' = risk]_vars

\* position record i leaves status open in this step
Closes(i) ==
    /\ i \in DOMAIN positions /\ i \in DOMAIN positions'
    /\ positions[i].status = "open" /\ positions'[i].status # "open"

\* the step is the close of a sell signal (update_position of _execute_sell)
BySellSignal == \E h \in Handlers : handler[h].pc = "sell_pos_save" /\ handler'[h] # handler[h]

\* the persisted orders with the id
OrdersWithId(id) == {j \in DOMAIN orders : orders[j].id = id}

\* C21: every close persists the position with realized_pnl = (executed_price
\* of the exit order - entry_price) * quantity, is_monitoring = false,
\* exit_order_id = the id of the persisted sell order, and status closed for a
\* sell signal, stopped for a stop-loss trigger.
C21_CloseRecord ==
    [][\A i \in DOMAIN positions :
          Closes(i) =>
              LET p == positions'[i]
              IN  /\ ~p.is_monitoring
                  /\ p.status = IF BySellSignal THEN "closed" ELSE "stopped"
                  /\ \E j \in OrdersWithId(p.exit_order_id) :
                        /\ orders[j].side = "SELL"
                        /\ orders[j].symbol = p.symbol
                        /\ p.realized_pnl =
                              (orders[j].executed_price - p.entry_price) * p.quantity]_vars

\* the quantity persisted on the position with the id (0: no such record)
PersistedQuantity(id) ==
    LET found == FindPosition(positions, id)
    IN  IF found = <<>> THEN 0 ELSE found[1].quantity

\* handler thread h submits its market sell in this step and the Venue executes it
SellsNow(h) == handler[h].pc = "sell_order" /\ handler'[h].pc = "sell_order_load"

\* monitor m submits its stop-loss sell in this step and the Venue executes it
StopLossSellsNow(m) == MonitorAt(m, "sl_sell") /\ monitors'[m].pc = "sl_order_load"

\* C22: every close, by a sell signal or by a stop-loss, submits one market
\* sell, and its quantity is the whole quantity persisted on the position at
\* that time, never a part of it.
C22_SellsWholeQuantity ==
    [][/\ \A h \in Handlers :
             SellsNow(h) =>
                 /\ handler[h].qty > 0
                 /\ handler[h].qty = PersistedQuantity(handler[h].pid)
                 /\ hist'.executed = hist.executed + 1
       /\ \A m \in MonIds :
             StopLossSellsNow(m) =>
                 /\ monitors[m].quantity > 0
                 /\ monitors[m].quantity = PersistedQuantity(monitors[m].position_id)
                 /\ hist'.executed = hist.executed + 1]_vars

\* C22 witness: a sell signal and a stop-loss have both sold position 1, and
\* both sell orders are persisted with the position's quantity.
C22_Witness ==
    /\ hist.sells[1] = 2
    /\ \E j \in DOMAIN orders : orders[j].side = "SELL" /\ orders[j].price = orders[j].executed_price
                                /\ orders[j].quantity = PersistedQuantity(1)
    /\ \E m \in Mons : monitors[m].pc = "done" /\ monitors[m].oid # 0
    /\ handler["mock"].pc = "idle" /\ env.events > 0

\* handler thread h persists the position of its buy in this step
Creates(h) == handler[h].pc = "buy_pos_save" /\ handler'[h].pc = "buy_link_load"

\* the step is the write of update_stop_loss to the positions file
ByUpdateStopLoss == main.pc = "usl_save" /\ main'.pc = "idle"

\* C23: a position created by a buy is persisted with status open,
\* is_monitoring true, quantity > 0 and stop_loss_price = entry_price *
\* (1 - stop_loss_percentage); afterwards the stop_loss_price of a position
\* record changes only in a write of update_stop_loss.
C23_StopLossSetAtCreation ==
    [][/\ \A h \in Handlers :
             Creates(h) =>
                 LET p == positions'[Len(positions')]
                 IN  /\ p.id = handler'[h].pid
                     /\ p.status = "open" /\ p.is_monitoring
                     /\ p.quantity > 0
                     /\ p.stop_loss_price =
                           (p.entry_price * (100 - stop_loss_percentage)) \div 100
       /\ \A i \in DOMAIN positions :
             /\ i \in DOMAIN positions'
             /\ positions'[i].id = positions[i].id
             /\ positions'[i].stop_loss_price # positions[i].stop_loss_price
             => ByUpdateStopLoss]_vars

\* a monitor of the position exists whose thread has not ended
LiveMonitor(id) ==
    \E m \in Mons : monitors[m].position_id = id /\ monitors[m].pc # "done"

\* the stop-loss threshold that a positions file holds for the id (0: none)
StopIn(ps, id) ==
    LET found == FindPosition(ps, id)
    IN  IF found = <<>> THEN 0 ELSE found[1].stop_loss_price

\* update_stop_loss is called in this step
UpdateCalled == env'.updates = env.updates + 1

\* C24: update_stop_loss(position_id, new_price) with a live monitor for the
\* id leaves the monitor's threshold and the persisted stop_loss_price at
\* new_price; without a live monitor it changes no monitor and nothing in the
\* Store.
C24_UpdateNeedsLiveMonitor ==
    [][/\ UpdateCalled /\ (monitors' # monitors \/ main' # main)
             => LiveMonitor(main'.id)
       /\ ByUpdateStopLoss =>
             /\ StopIn(positions', main.id) = main.level
             /\ \A m \in Mons :
                   monitors[m].position_id = main.id /\ monitors[m].pc # "done"
                       => monitors'[m].stop_loss_price = main.level]_vars

\* handler thread h takes a step while it executes a signal
Executes(h) == handler[h].pc # "idle" /\ handler'[h] # handler[h]

PollFails(m) ==
    /\ MonitorAt(m, "price")
    /\ monitors'[m].pc \notin {"price", "upd_load"}

\* monitor m comes to its price request in this step
StartsPoll(m) == ~MonitorAt(m, "price") /\ m \in DOMAIN monitors' /\ monitors'[m].pc = "price"

EndsPass(t) == ManagementAt(t, "remove") /\ mgmt'[t].pc = "top"

\* the pass ending in this step leaves the monitor registered for id alone
KeepsMonitor(id) ==
    /\ manager'.registry[id] = manager.registry[id]
    /\ manager.registry[id] # 0 =>
          monitors'[manager.registry[id]].running = monitors[manager.registry[id]].running

\* C27: whatever goes wrong inside a reconciliation pass or a monitor's tick,
\* a pass never stops or unregisters the monitor of a position that the Store
\* holds as open and monitored, and a management thread ends only after the
\* supervisor has been stopped.
C27_SupervisorIsolation ==
    [][\A t \in MgmtIds :
          /\ EndsPass(t) => \A id \in OpenMonitoredIds : KeepsMonitor(id)
          /\ (t \in DOMAIN mgmt /\ mgmt[t].pc # "done" /\ mgmt'[t].pc = "done")
                 => ~manager.running]_vars


\* the Venue fails handler thread h's buy in this step: the quote for the
\* quantity, the quote for the price, or the market buy itself
VenueFailsBuy(h) ==
    /\ handler[h].pc \in {"buy_qty", "buy_price", "buy_order"}
    /\ handler'[h] # handler[h]
    /\ handler'[h].pc \notin {"buy_price", "buy_order", "buy_order_load"}

ChangesOnly(id, fields) ==
    /\ Len(positions') = Len(positions)
    /\ \A i \in DOMAIN positions :
          IF positions[i].id = id
          THEN \A f \in DOMAIN positions[i] \ fields : positions'[i][f] = positions[i][f]
          ELSE positions'[i] = positions[i]

CloseFields == {"status", "current_price", "realized_pnl", "exit_order_id", "is_monitoring"}

\* C29: every update_position(id, updates) of the program changes the fields
\* named in updates on the record with that id and nothing else in the
\* positions file, the record then holds the updated values, and every
\* get_open_positions returns the stored positions whose status is open.
C29_UpdateChangesNamedFields ==
    [][/\ \A h \in Handlers :
             SellUpdatePositionSave(h) =>
                 /\ ChangesOnly(handler[h].pid, CloseFields)
                 /\ StatusOf(positions', handler[h].pid) \in {"closed", "none"}
       /\ \A m \in MonIds :
             /\ MonitorUpdateSave(m) =>
                    ChangesOnly(monitors[m].position_id, {"current_price", "unrealized_pnl"})
             /\ MonitorStopLossPositionSave(m) =>
                    /\ ChangesOnly(monitors[m].position_id, CloseFields)
                    /\ StatusOf(positions', monitors[m].position_id) \in {"stopped", "none"}
       /\ UpdateStopLossSave =>
             /\ ChangesOnly(main.id, {"stop_loss_price"})
             /\ StopIn(positions', main.id) \in {main.level, 0}
       /\ Start => main'.open = get_open_positions(positions)
       /\ \A t \in MgmtIds :
             (ManagementLoop(t) /\ manager.running) =>
                 mgmt'[t].open = get_open_positions(positions)]_vars


\* the ids under which a Store file holds records
IdsIn(data) == {data[i].id : i \in DOMAIN data}

\* no two records of the file have the same id
DistinctIds(data) == \A i, j \in DOMAIN data : data[i].id = data[j].id => i = j

\* handler thread h receives the id of the order or position it has just saved
SavesOrder(h) == handler[h].pc = "buy_order_save" /\ handler'[h].pc = "buy_pos_load"
SavesPosition(h) == handler[h].pc = "buy_pos_save" /\ handler'[h].pc = "buy_link_load"

\* C30: whatever the interleaving of the threads' saves and updates, a saved
\* order or position gets an id that no record of its file had, the ids of a
\* file stay distinct, and a record once in a file stays in it under its id.
C30_RecordsDurable ==
    [][/\ \A h \in Handlers :
             /\ SavesOrder(h) => handler'[h].oid \in IdsIn(orders') \ IdsIn(orders)
             /\ SavesPosition(h) => handler'[h].pid \in IdsIn(positions') \ IdsIn(positions)
       /\ DistinctIds(positions') /\ DistinctIds(orders')
       /\ IdsIn(positions) \subseteq IdsIn(positions')
       /\ IdsIn(orders) \subseteq IdsIn(orders')]_vars


\* get_trading_summary returns in this step
SummaryReturns == main.pc = "sum_open" /\ main'.pc = "idle"

\* the main thread takes a step of get_trading_summary
SummaryReads == main' # main /\ (main.pc \in {"sum_positions", "sum_open"} \/ main'.pc = "sum_positions")

\* summary s has an entry for the quantity `what`
Reports(s, what) == \E k \in DOMAIN s : s[k].what = what

\* C31: the summary that get_trading_summary returns holds the number of open
\* positions and the list of the open positions, the number being the length
\* of the list, together with the total of trades, the sum of realized_pnl,
\* the recent orders and the risk counters; and no step of reading the
\* summary changes the Store, the counters or any other thread.
C31_SummaryReportsCountAndList ==
    [][/\ SummaryReturns =>
             LET s == main'.out
             IN  /\ \A what \in {"open_positions_count", "open_positions", "total_trades",
                                 "total_pnl", "recent_orders", "risk_stats"} : Reports(s, what)
                 /\ \A k1, k2 \in DOMAIN s :
                       s[k1].what = "open_positions_count" /\ s[k2].what = "open_positions"
                           => s[k1].num = Len(s[k2].list)
       /\ SummaryReads =>
             UNCHANGED <<positions, orders, risk, today, handler, monitors, manager, mgmt, hist>>]_vars


\* the rounding step of calculate_buy_quantity, in 10^-6 units: 6 decimal
\* places for BTC pairs, 5 for ETH pairs, 4 otherwise
RoundingStep(sym) == IF sym = "BTCUSDT" THEN 1 ELSE IF sym = "ETHUSDT" THEN 10 ELSE 100

\* C32: a position is created with the price its quantity was computed from:
\* its quantity is trade_amount / entry_price rounded to the symbol's
\* precision, so that quantity * entry_price exceeds trade_amount by no more
\* than one rounding step's worth.
C32_OnePriceForBuy ==
    [][\A h \in Handlers :
          Creates(h) =>
              LET p == positions'[Len(positions')]
              IN  /\ p.quantity =
                        calculate_buy_quantity(p.symbol, trade_amount_usdt, p.entry_price)
                  /\ p.quantity * p.entry_price
                        <= trade_amount_usdt * QtyScale + p.entry_price * RoundingStep(p.symbol)]_vars


Terminal == {"closed", "stopped"}

\* C33: a closed position never becomes stopped and a stopped one never
\* closed, and the realized_pnl and exit_order_id written by the close that
\* ended it are not written again by another close.
C33_TerminalAbsorbing ==
    [][\A id \in PosIds :
          LET was == FindPosition(positions, id)
              is == FindPosition(positions', id)
          IN  (was # <<>> /\ is # <<>> /\ was[1].status \in Terminal /\ is[1].status \in Terminal)
                  => /\ is[1].status = was[1].status
                     /\ is[1].realized_pnl = was[1].realized_pnl
                     /\ is[1].exit_order_id = was[1].exit_order_id]_vars


\* monitor m's thread ends in this step
Ends(m) == m \in DOMAIN monitors /\ monitors[m].pc # "done" /\ monitors'[m].pc = "done"

\* C34: a monitor's thread ends only when its stop flag is set, when the
\* Store does not hold its position as open, or out of the stop-loss close
\* it executed; it never ends at the top of its loop while running, with its
\* position open in the Store.
C34_MonitorEndsForCause ==
    [][\A m \in MonIds :
          Ends(m) =>
              \/ ~monitors[m].running
              \/ monitors[m].pc \in ClosePcs
              \/ StatusOf(positions, monitors[m].position_id) # "open"]_vars


\* an update_stop_loss call is between its first and its last step
UpdateInProgress == main.pc \in {"usl_load", "usl_save"}

\* C35: outside an update_stop_loss call, the threshold every registered
\* monitor holds in memory is the stop_loss_price persisted on its position.
C35_ThresholdConsistent ==
    ~UpdateInProgress =>
        \A id \in Registered :
            FindPosition(positions, id) # <<>> =>
                monitors[manager.registry[id]].stop_loss_price = PersistedStop(id)


\* C36: in every reachable state the Store holds at most max_open_positions
\* positions with status open.
C36_OpenWithinLimit == Len(get_open_positions(positions)) <= max_open_positions


\* C37: no close waits for the risk gate.  A sell signal whose symbol has an
\* open position goes on to its Venue quote and sell, and a triggered
\* stop-loss goes on to its sell, whatever the counters and the balance are;
\* and since buys alone are gated, the buys executed since the last rollover
\* never number more than max_daily_trades.
C37_ClosesNotGated ==
    [][/\ \A h \in Handlers :
             (/\ handler[h].pc = "sell_find" /\ handler'[h] # handler[h]
              /\ has_open_position(positions, handler[h].sym)
              /\ env'.torn = env.torn)
                 => handler'[h].pc = "sell_price"
       /\ \A m \in MonIds :
             (/\ MonitorAt(m, "upd_save") /\ monitors'[m].pc # "upd_save"
              /\ StopLossTriggered(monitors[m].price, monitors[m].stop_loss_price))
                 => monitors'[m].pc = "sl_sell"
       /\ hist'.buys <= max_daily_trades]_vars


\* C38: once a check has rolled the counters over to the present date, every
\* trade that record_trade recorded on this date is counted in daily_trades.
C38_RolloverKeepsTodaysTrades ==
    risk.last_reset = today => risk.daily_trades >= hist.recorded


\* order o is the entry order of position p
EntryOrderOf(o, p) ==
    /\ o.id = p.entry_order_id /\ o.side = "BUY"
    /\ o.symbol = p.symbol /\ o.quantity = p.quantity

\* C39: every position in the Store has its entry order in the Store, a BUY
\* order of the position's symbol and quantity under the id the position
\* names, and when no buy is in progress that order names the position.
C39_PositionHasEntryOrder ==
    \A i \in DOMAIN positions :
        \E j \in DOMAIN orders :
            /\ EntryOrderOf(orders[j], positions[i])
            /\ (\A h \in Handlers : handler[h].pc = "idle")
                   => orders[j].position_id = positions[i].id


====
